---- MODULE Spec2Model ----
(***************************************************************************)
(* A model of the k-anonymity evaluator of code/n.py: the quasi-identifier *)
(* classifier, the equivalence-class builder, the metric functions, the    *)
(* k-anonymity verdict and the batch loop of main().                       *)
(*                                                                         *)
(* A string is a sequence of one-character strings.  A cell of the data    *)
(* frame is [t |-> "str" or "int", v |-> its characters / decimal digits]. *)
(* A Python dict (Counter, defaultdict) is a sequence of [key, val]        *)
(* entries in insertion order.  A float is an exact fraction [n, d].       *)
(***************************************************************************)
EXTENDS Integers, Sequences, FiniteSets, TLC

VARIABLES
    df,                 \* the data frame
    k,                  \* the threshold of the last evaluate_k_anonymity call
    quasi_identifiers,  \* locals of that call
    ec_counts,
    ec_groups,
    results,            \* the dictionary it returned
    pc,                 \* where the caller is
    kIdx,               \* main(): position in [2, 3, 5]
    evaluated,          \* main(): the k values evaluated so far
    error               \* main(): the step whose exception reached except

vars == <<df, k, quasi_identifiers, ec_counts, ec_groups, results, pc,
          kIdx, evaluated, error>>

(* ------------------------------ bounds --------------------------------- *)

\* a loaded data frame has at most MaxCells cells (records * columns)
MaxCells == 5
\* the thresholds handed to evaluate_k_anonymity are 0..MaxK
MaxK == 2
\* main() is explored on data frames of at most MainMaxCells cells
MainMaxCells == 2
\* frames of separator-bearing strings have at most MaxSepCells cells
MaxSepCells == 10

(* ------------------------------ strings -------------------------------- *)

STAR == <<"*">>
SEP == <<"_">>

StrCell(s) == [t |-> "str", v |-> s]
IntCell(digits) == [t |-> "int", v |-> digits]

\* string cells one of which holds the key separator
SepCells == { StrCell(<<"1">>), StrCell(<<"1", "_", "1">>) }

\* the cell values a data frame is drawn from: the full-suppression marker,
\* an original string, an integer with the same rendering, a string holding
\* the key separator, and a partially generalised string
Cells == { StrCell(STAR), StrCell(<<"1">>), IntCell(<<"1">>),
           StrCell(<<"1", "_", "1">>), StrCell(<<"1", "*", "*">>) }

\* str(val) / ndarray.astype(str): the characters of a string, the decimal
\* digits of an integer
astype_str(c) == c.v

\* Series.eq(s) / val == s: a cell equals a string only if it is that string
eq(c, s) == c.t = "str" /\ c.v = s

\* sub in s  (substring test)
Contains(s, sub) ==
    \E i \in 1..(Len(s) - Len(sub) + 1) : SubSeq(s, i, i + Len(sub) - 1) = sub

RECURSIVE join(_, _)
\* sep.join(parts)
join(sep, parts) ==
    IF Len(parts) = 0 THEN <<>>
    ELSE IF Len(parts) = 1 THEN parts[1]
    ELSE join(sep, SubSeq(parts, 1, Len(parts) - 1)) \o sep \o parts[Len(parts)]

(* ----------------------------- data frames ----------------------------- *)

\* a data frame: ncols columns labelled 1..ncols, rows in record order
Frame(c, r) == [ncols |-> c, rows |-> r]

\* the shapes (records, columns) of the frames of at most cells cells
Shapes(cells) == { s \in (0..cells) \X (0..cells) : s[1] * s[2] <= cells }

NumRecords(d) == Len(d.rows)
Columns(d) == [j \in 1..d.ncols |-> j]

(* ------------------------------ fractions ------------------------------ *)

RECURSIVE GCD(_, _)
GCD(a, b) == IF b = 0 THEN a ELSE GCD(b, a % b)

Frac(n, d) == LET g == GCD(n, d) IN IF g = 0 THEN [n |-> 0, d |-> 1]
                                    ELSE [n |-> n \div g, d |-> d \div g]
Zero == [n |-> 0, d |-> 1]
\* the value that stands for a raised ZeroDivisionError
ZeroDivision == [n |-> 0, d |-> 0]

\* a / b of Python, on fractions
Div(a, b) == IF a = ZeroDivision \/ b = ZeroDivision \/ b.n = 0 THEN ZeroDivision
             ELSE Frac(a.n * b.d, a.d * b.n)
Mul(a, b) == IF a = ZeroDivision \/ b = ZeroDivision THEN ZeroDivision
             ELSE Frac(a.n * b.n, a.d * b.d)
Add(a, b) == IF a = ZeroDivision \/ b = ZeroDivision THEN ZeroDivision
             ELSE Frac(a.n * b.d + b.n * a.d, a.d * b.d)
Less(a, b) == a.n * b.d < b.n * a.d
Num(i) == [n |-> i, d |-> 1]

RECURSIVE SumFrac(_)
SumFrac(s) == IF s = <<>> THEN Zero
              ELSE Add(SumFrac(SubSeq(s, 1, Len(s) - 1)), s[Len(s)])

RECURSIVE SumInt(_)
SumInt(s) == IF s = <<>> THEN 0
             ELSE SumInt(SubSeq(s, 1, Len(s) - 1)) + s[Len(s)]

RECURSIVE MaxFrac(_)
\* max(s) of a non-empty list of fractions
MaxFrac(s) == IF Len(s) = 1 THEN s[1]
              ELSE LET m == MaxFrac(SubSeq(s, 1, Len(s) - 1))
                   IN IF Less(m, s[Len(s)]) THEN s[Len(s)] ELSE m

MinInt(s) == CHOOSE x \in {s[i] : i \in 1..Len(s)} :
                 \A i \in 1..Len(s) : x <= s[i]
MaxInt(s) == CHOOSE x \in {s[i] : i \in 1..Len(s)} :
                 \A i \in 1..Len(s) : x >= s[i]

(* ------------------------------- dicts --------------------------------- *)

Keys(dict) == [i \in 1..Len(dict) |-> dict[i].key]
Values(dict) == [i \in 1..Len(dict) |-> dict[i].val]
HasKey(dict, key) == \E i \in 1..Len(dict) : dict[i].key = key

RECURSIVE Counter(_)
\* collections.Counter(s): the count of every element, in first-seen order
Counter(s) ==
    IF s = <<>> THEN <<>>
    ELSE LET prev == Counter(SubSeq(s, 1, Len(s) - 1))
             x == s[Len(s)]
         IN IF HasKey(prev, x)
            THEN [i \in 1..Len(prev) |->
                    IF prev[i].key = x THEN [key |-> x, val |-> prev[i].val + 1]
                    ELSE prev[i]]
            ELSE Append(prev, [key |-> x, val |-> 1])

(* ------------------------ identify_quasi_identifiers ------------------- *)

\* the classifier with .any() in place of .all()
identify_quasi_identifiers_any(d) ==
    SelectSeq(Columns(d),
              LAMBDA col : ~ \E i \in 1..NumRecords(d) : eq(d.rows[i][col], STAR))

\* the columns, in column order, not every value of which equals '*'
identify_quasi_identifiers(d) ==
    SelectSeq(Columns(d),
              LAMBDA col : ~ \A i \in 1..NumRecords(d) : eq(d.rows[i][col], STAR))

(* ------------------------ compute_equivalence_classes ------------------ *)

\* lambda row: '_'.join(row.values.astype(str)), on record i of df[qis]
row_key(d, qis, i) ==
    join(SEP, [j \in 1..Len(qis) |-> astype_str(d.rows[i][qis[j]])])

\* the empty result taken for an empty Series whatever the number of records
apply_empty_result_none(d) == <<>>

\* DataFrame.apply(func, axis=1) on a frame one axis of which is empty:
\* the function is applied to an empty row and its result (here '') is
\* repeated for every record
apply_empty_result(d) ==
    [i \in 1..NumRecords(d) |-> join(SEP, <<>>)]

\* df[qis].apply(..., axis=1): the key of every record, in record order
apply_row_key(d, qis) ==
    IF NumRecords(d) = 0 \/ Len(qis) = 0 THEN apply_empty_result(d)
    ELSE [i \in 1..NumRecords(d) |-> row_key(d, qis, i)]

RECURSIVE group_indices_overwrite(_)
\* the grouping loop with ec_groups[key] = [i] in place of append
group_indices_overwrite(keys) ==
    IF keys = <<>> THEN <<>>
    ELSE LET prev == group_indices_overwrite(SubSeq(keys, 1, Len(keys) - 1))
             x == keys[Len(keys)]
             i == Len(keys) - 1
         IN IF HasKey(prev, x)
            THEN [j \in 1..Len(prev) |->
                    IF prev[j].key = x THEN [key |-> x, val |-> <<i>>]
                    ELSE prev[j]]
            ELSE Append(prev, [key |-> x, val |-> <<i>>])

RECURSIVE group_indices(_)
\* for i, key in enumerate(ec_keys): ec_groups[key].append(i)
group_indices(keys) ==
    IF keys = <<>> THEN <<>>
    ELSE LET prev == group_indices(SubSeq(keys, 1, Len(keys) - 1))
             x == keys[Len(keys)]
             i == Len(keys) - 1
         IN IF HasKey(prev, x)
            THEN [j \in 1..Len(prev) |->
                    IF prev[j].key = x
                    THEN [key |-> x, val |-> Append(prev[j].val, i)]
                    ELSE prev[j]]
            ELSE Append(prev, [key |-> x, val |-> <<i>>])

compute_equivalence_classes(d, qis) ==
    LET ec_keys == apply_row_key(d, qis)
    IN [ec_counts |-> Counter(ec_keys), ec_groups |-> group_indices(ec_keys)]

(* ------------------------------- metrics ------------------------------- *)

\* the risk metrics with the mean weighted by class size (per record)
calculate_reidentification_risks_weighted(counts) ==
    LET risks == [i \in 1..Len(counts) |-> Div(Num(1), Num(counts[i].val))]
    IN [max_risk |-> IF risks # <<>> THEN MaxFrac(risks) ELSE Zero,
        avg_risk |-> IF risks # <<>>
                     THEN Div(Num(Len(risks)), Num(SumInt(Values(counts))))
                     ELSE Zero,
        risks |-> risks]

calculate_reidentification_risks(counts) ==
    LET risks == [i \in 1..Len(counts) |-> Div(Num(1), Num(counts[i].val))]
    IN [max_risk |-> IF risks # <<>> THEN MaxFrac(risks) ELSE Zero,
        avg_risk |-> IF risks # <<>>
                     THEN Div(SumFrac(risks), Num(Len(risks)))
                     ELSE Zero,
        risks |-> risks]

\* the class metrics without the guards on an empty list / zero records
calculate_equivalence_class_metrics_unguarded(counts, total_records) ==
    LET ec_sizes == Values(counts)
        unique_records == Cardinality({i \in 1..Len(ec_sizes) : ec_sizes[i] = 1})
    IN [num_equivalence_classes |-> Len(ec_sizes),
        min_ec_size |-> IF ec_sizes # <<>> THEN MinInt(ec_sizes) ELSE 0,
        max_ec_size |-> IF ec_sizes # <<>> THEN MaxInt(ec_sizes) ELSE 0,
        avg_ec_size |-> Div(Num(SumInt(ec_sizes)), Num(Len(ec_sizes))),
        unique_records |-> unique_records,
        unique_records_percentage |->
            Mul(Div(Num(unique_records), Num(total_records)), Num(100)),
        ec_size_distribution |-> Counter(ec_sizes)]

calculate_equivalence_class_metrics(counts, total_records) ==
    LET ec_sizes == Values(counts)
        unique_records == Cardinality({i \in 1..Len(ec_sizes) : ec_sizes[i] = 1})
    IN [num_equivalence_classes |-> Len(ec_sizes),
        min_ec_size |-> IF ec_sizes # <<>> THEN MinInt(ec_sizes) ELSE 0,
        max_ec_size |-> IF ec_sizes # <<>> THEN MaxInt(ec_sizes) ELSE 0,
        avg_ec_size |-> IF ec_sizes # <<>>
                        THEN Div(Num(SumInt(ec_sizes)), Num(Len(ec_sizes)))
                        ELSE Zero,
        unique_records |-> unique_records,
        unique_records_percentage |->
            IF total_records > 0
            THEN Mul(Div(Num(unique_records), Num(total_records)), Num(100))
            ELSE Zero,
        ec_size_distribution |-> Counter(ec_sizes)]

\* the information loss of one quasi-identifier column
column_loss(d, col) ==
    LET total_records == NumRecords(d)
        distinct_values == Cardinality({d.rows[i][col] : i \in 1..total_records})
        asterisk_count ==
            Cardinality({i \in 1..total_records : eq(d.rows[i][col], STAR)})
        generalized_count ==
            Cardinality({i \in 1..total_records :
                           /\ ~ eq(d.rows[i][col], STAR)
                           /\ Contains(astype_str(d.rows[i][col]), <<"*", "*">>)})
        pct(c) == IF total_records > 0
                  THEN Mul(Div(Num(c), Num(total_records)), Num(100))
                  ELSE Zero
    IN [distinct_values |-> distinct_values,
        asterisk_percentage |-> pct(asterisk_count),
        generalized_percentage |-> pct(generalized_count),
        total_loss_percentage |-> pct(asterisk_count + generalized_count)]

calculate_information_loss(d, qis) ==
    LET info_loss == [j \in 1..Len(qis) |->
                        [key |-> qis[j], val |-> column_loss(d, qis[j])]]
        losses == [j \in 1..Len(qis) |-> info_loss[j].val.total_loss_percentage]
    IN [columns |-> info_loss,
        average |-> IF info_loss # <<>>
                    THEN Div(SumFrac(losses), Num(Len(info_loss)))
                    ELSE Zero]

calculate_suppression_rate(d) ==
    LET total_cells == NumRecords(d) * d.ncols
        suppressed_cells ==
            Cardinality({c \in (1..NumRecords(d)) \X (1..d.ncols) :
                           eq(d.rows[c[1]][c[2]], STAR)})
    IN IF total_cells > 0
       THEN Mul(Div(Num(suppressed_cells), Num(total_cells)), Num(100))
       ELSE Zero

discernibility_metric(groups, total_records) ==
    SumInt([i \in 1..Len(groups) |-> Len(groups[i].val) * Len(groups[i].val)])

(* --------------------------- evaluate_k_anonymity ---------------------- *)

\* satisfies_k_anonymity = ec_metrics['min_ec_size'] >= k
satisfies_k_anonymity(min_ec_size, kk) == min_ec_size >= kk

\* the local variables of evaluate_k_anonymity at its return statement;
\* results is the dictionary it returns
evaluate_k_anonymity(d, kk) ==
    LET qis == identify_quasi_identifiers(d)
        ec == compute_equivalence_classes(d, qis)
        risks == calculate_reidentification_risks(ec.ec_counts)
        ec_metrics == calculate_equivalence_class_metrics(ec.ec_counts, NumRecords(d))
        info_loss == calculate_information_loss(d, qis)
        suppression_rate == calculate_suppression_rate(d)
        dm == discernibility_metric(ec.ec_groups, NumRecords(d))
        satisfies == satisfies_k_anonymity(ec_metrics.min_ec_size, kk)
    IN [quasi_identifiers |-> qis,
        ec_counts |-> ec.ec_counts,
        ec_groups |-> ec.ec_groups,
        results |-> [k_value |-> kk,
                     quasi_identifiers |-> qis,
                     num_records |-> NumRecords(d),
                     satisfies_k_anonymity |-> satisfies,
                     risks |-> risks,
                     equivalence_class_metrics |-> ec_metrics,
                     information_loss |-> info_loss,
                     suppression_rate |-> suppression_rate,
                     discernibility_metric |-> dm]]

\* the divisions of one evaluation: one of them dividing by zero raises
\* ZeroDivisionError out of evaluate_k_anonymity
Divisions(r) ==
    { r.risks.max_risk, r.risks.avg_risk,
      r.equivalence_class_metrics.avg_ec_size,
      r.equivalence_class_metrics.unique_records_percentage,
      r.information_loss.average, r.suppression_rate }
    \cup { r.risks.risks[i] : i \in 1..Len(r.risks.risks) }
    \cup { r.information_loss.columns[j].val.total_loss_percentage :
             j \in 1..Len(r.information_loss.columns) }

RaisesZeroDivision(r) == ZeroDivision \in Divisions(r)

(* ------------------------------ the program ---------------------------- *)

\* for k in [2, 3, 5]
KList == <<2, 3, 5>>
KValues == 0..MaxK

NoFrame == [ncols |-> 0, rows |-> <<>>]

Init ==
    /\ pc = "start"
    /\ df = NoFrame
    /\ k = 0
    /\ quasi_identifiers = <<>>
    /\ ec_counts = <<>>
    /\ ec_groups = <<>>
    /\ results = <<>>
    /\ kIdx = 0
    /\ evaluated = <<>>
    /\ error = "none"

\* the frame evaluate_k_anonymity(d, kk) leaves: a ZeroDivisionError
\* propagates and nothing is returned
Call(d, kk, onReturn, onRaise) ==
    \E f \in {evaluate_k_anonymity(d, kk)} :
       /\ k' = kk
       /\ quasi_identifiers' = f.quasi_identifiers
       /\ ec_counts' = f.ec_counts
       /\ ec_groups' = f.ec_groups
       /\ IF RaisesZeroDivision(f.results)
          THEN results' = <<>> /\ pc' = onRaise
          ELSE results' = f.results /\ pc' = onReturn

\* a caller holds a data frame
load_anonymized_data ==
    /\ pc = "start"
    /\ \E s \in Shapes(MaxCells) :
          \E r \in [1..s[1] -> [1..s[2] -> Cells]] : df' = Frame(s[2], r)
    /\ pc' = "loaded"
    /\ UNCHANGED <<k, quasi_identifiers, ec_counts, ec_groups, results,
                   kIdx, evaluated, error>>

\* a caller calls evaluate_k_anonymity(df, kk)
Evaluate ==
    /\ pc = "loaded"
    /\ \E kk \in KValues : Call(df, kk, "returned", "raised")
    /\ UNCHANGED <<df, kIdx, evaluated, error>>

Next == load_anonymized_data \/ Evaluate

Spec == Init /\ [][Next]_vars

\* a caller holds a frame of plain strings, some holding the separator
load_separator_data ==
    /\ pc = "start"
    /\ \E s \in Shapes(MaxSepCells) :
          \E r \in [1..s[1] -> [1..s[2] -> SepCells]] : df' = Frame(s[2], r)
    /\ pc' = "loaded"
    /\ UNCHANGED <<k, quasi_identifiers, ec_counts, ec_groups, results,
                   kIdx, evaluated, error>>

SeparatorNext == load_separator_data \/ Evaluate

SeparatorSpec == Init /\ [][SeparatorNext]_vars

(* --------------------------------- main -------------------------------- *)

\* df = load_anonymized_data(file_path): a parsed file has a column
main_load ==
    /\ pc = "start"
    /\ \E s \in { sh \in Shapes(MainMaxCells) : sh[2] >= 1 } :
          \E r \in [1..s[1] -> [1..s[2] -> Cells]] : df' = Frame(s[2], r)
    /\ pc' = "evaluate"
    /\ kIdx' = 1
    /\ UNCHANGED <<k, quasi_identifiers, ec_counts, ec_groups, results,
                   evaluated, error>>

\* pd.read_csv raises (no such file, empty file): except prints, main returns
main_load_raises ==
    /\ pc = "start"
    /\ pc' = "done"
    /\ error' = "load"
    /\ UNCHANGED <<df, k, quasi_identifiers, ec_counts, ec_groups, results,
                   kIdx, evaluated>>

\* results = evaluate_k_anonymity(df, k)
main_evaluate ==
    /\ pc = "evaluate"
    /\ kIdx <= Len(KList)
    /\ Call(df, KList[kIdx], "print", "done")
    /\ evaluated' = IF pc' = "print" THEN Append(evaluated, KList[kIdx])
                    ELSE evaluated
    /\ error' = IF pc' = "print" THEN error ELSE "evaluate"
    /\ UNCHANGED <<df, kIdx>>

\* print_evaluation_report(results)
main_print ==
    /\ pc = "print"
    /\ pc' = "visualize"
    /\ UNCHANGED <<df, k, quasi_identifiers, ec_counts, ec_groups, results,
                   kIdx, evaluated, error>>

\* writing to stdout raises: the except clause is outside the loop
main_print_raises ==
    /\ pc = "print"
    /\ pc' = "done"
    /\ error' = "print"
    /\ UNCHANGED <<df, k, quasi_identifiers, ec_counts, ec_groups, results,
                   kIdx, evaluated>>

\* visualize_results(results)
main_visualize ==
    /\ pc = "visualize"
    /\ pc' = "save"
    /\ UNCHANGED <<df, k, quasi_identifiers, ec_counts, ec_groups, results,
                   kIdx, evaluated, error>>

\* plotting or plt.savefig raises
main_visualize_raises ==
    /\ pc = "visualize"
    /\ pc' = "done"
    /\ error' = "visualize"
    /\ UNCHANGED <<df, k, quasi_identifiers, ec_counts, ec_groups, results,
                   kIdx, evaluated>>

\* with open(f'k{k}_anonymity_results.csv', 'w') as f: ...; next k
main_save ==
    /\ pc = "save"
    /\ pc' = "evaluate"
    /\ kIdx' = kIdx + 1
    /\ UNCHANGED <<df, k, quasi_identifiers, ec_counts, ec_groups, results,
                   evaluated, error>>

\* open or write raises
main_save_raises ==
    /\ pc = "save"
    /\ pc' = "done"
    /\ error' = "save"
    /\ UNCHANGED <<df, k, quasi_identifiers, ec_counts, ec_groups, results,
                   kIdx, evaluated>>

\* the list is exhausted
main_return ==
    /\ pc = "evaluate"
    /\ kIdx > Len(KList)
    /\ pc' = "done"
    /\ UNCHANGED <<df, k, quasi_identifiers, ec_counts, ec_groups, results,
                   kIdx, evaluated, error>>

MainNext ==
    \/ main_load \/ main_load_raises
    \/ main_evaluate
    \/ main_print \/ main_print_raises
    \/ main_visualize \/ main_visualize_raises
    \/ main_save \/ main_save_raises
    \/ main_return

MainSpec == Init /\ [][MainNext]_vars

(* ------------------------------ properties ----------------------------- *)

Returned == pc = "returned"
n == NumRecords(df)
metrics == results.equivalence_class_metrics

\* the tuple of quasi-identifier values of record i (1-based), as held in df
QITuple(i) == [j \in 1..Len(quasi_identifiers) |-> df.rows[i][quasi_identifiers[j]]]
DistinctTuples == { QITuple(i) : i \in 1..n }

\* how often record index r occurs in the groups
Occurrences(r) ==
    SumInt([g \in 1..Len(ec_groups) |->
              Cardinality({p \in 1..Len(ec_groups[g].val) : ec_groups[g].val[p] = r})])

\* records i and j (1-based) are members of one group
SameGroup(i, j) ==
    \E g \in 1..Len(ec_groups) :
        /\ \E p \in 1..Len(ec_groups[g].val) : ec_groups[g].val[p] = i - 1
        /\ \E p \in 1..Len(ec_groups[g].val) : ec_groups[g].val[p] = j - 1

NoDuplicates(s) == \A i, j \in 1..Len(s) : s[i] = s[j] => i = j
Range(s) == { s[i] : i \in 1..Len(s) }
GroupSizes == [g \in 1..Len(ec_groups) |-> Len(ec_groups[g].val)]

\* C1: the groups partition the record indices 0..n-1 (every index is in
\* exactly one group, once), counts[key] = len(groups[key]) for every key,
\* and the class sizes sum to the number of records.
C1_Partition ==
    Returned =>
        /\ quasi_identifiers = identify_quasi_identifiers(df)
        /\ \A r \in 0..(n - 1) : Occurrences(r) = 1
        /\ \A g \in 1..Len(ec_groups) : Range(ec_groups[g].val) \subseteq 0..(n - 1)
        /\ NoDuplicates(Keys(ec_counts)) /\ NoDuplicates(Keys(ec_groups))
        /\ Range(Keys(ec_counts)) = Range(Keys(ec_groups))
        /\ \A c \in 1..Len(ec_counts) : \A g \in 1..Len(ec_groups) :
               ec_counts[c].key = ec_groups[g].key
                   => ec_counts[c].val = Len(ec_groups[g].val)
        /\ SumInt(Values(ec_counts)) = n

\* a frame of at least three records grouped into two classes, one of them
\* with several members
C1_Witness ==
    /\ Returned /\ n >= 3 /\ Len(ec_groups) = 2
    /\ \E g \in 1..2 : Len(ec_groups[g].val) >= 2

\* C2: two records share a class iff their quasi-identifier tuples are
\* equal, and the number of classes is the number of distinct tuples, also
\* when cells hold the separator '_'.
C2_SameClassIffEqualTuples ==
    Returned =>
        /\ \A i, j \in 1..n : SameGroup(i, j) <=> QITuple(i) = QITuple(j)
        /\ metrics.num_equivalence_classes = Cardinality(DistinctTuples)

\* C3: the verdict is true iff min_ec_size >= k, min_ec_size being the size
\* of the smallest class; three records with pairwise distinct tuples
\* evaluated at k = 2 are not 2-anonymous.
C3_VerdictIffMinAtLeastK ==
    Returned =>
        /\ results.satisfies_k_anonymity <=> metrics.min_ec_size >= results.k_value
        /\ n >= 1 => \A g \in 1..Len(ec_groups) :
                         metrics.min_ec_size <= Len(ec_groups[g].val)
        /\ (n = 3 /\ Cardinality(DistinctTuples) = 3 /\ results.k_value = 2)
               => ~ results.satisfies_k_anonymity

AllSuppressed ==
    \A i \in 1..n : \A j \in 1..df.ncols : df.rows[i][j] = StrCell(STAR)

\* C4: a frame with at least one record, every cell of which is '*' (or
\* which has no column), has no quasi-identifier and exactly one class, the
\* class of the empty key, holding every record.
C4_AllSuppressedOneClass ==
    (Returned /\ n >= 1 /\ AllSuppressed) =>
        /\ quasi_identifiers = <<>>
        /\ results.quasi_identifiers = <<>>
        /\ ec_counts = << [key |-> <<>>, val |-> n] >>
        /\ ec_groups = << [key |-> <<>>, val |-> [i \in 1..n |-> i - 1]] >>
        /\ metrics.num_equivalence_classes = 1
        /\ metrics.min_ec_size = n

\* several fully suppressed records in several columns
C4_Witness ==
    Returned /\ n >= 2 /\ df.ncols >= 2 /\ AllSuppressed

\* C5: a column is returned iff some record's value in it differs from
\* '*'; the columns come in column order, without duplicates.
C5_QuasiIdentifiers ==
    Returned =>
        /\ \A col \in 1..df.ncols :
               col \in Range(quasi_identifiers)
                   <=> \E i \in 1..n : df.rows[i][col] # StrCell(STAR)
        /\ Range(quasi_identifiers) \subseteq 1..df.ncols
        /\ \A a, b \in 1..Len(quasi_identifiers) :
               a < b => quasi_identifiers[a] < quasi_identifiers[b]

\* a suppressed first column and a second column that is suppressed in one
\* record only: the second alone is a quasi-identifier
C5_Witness ==
    /\ Returned /\ df.ncols = 2 /\ n = 2
    /\ \A i \in 1..n : df.rows[i][1] = StrCell(STAR)
    /\ df.rows[1][2] = StrCell(STAR) /\ df.rows[2][2] # StrCell(STAR)
    /\ quasi_identifiers = <<2>>

\* C6: evaluate_k_anonymity returns no report for k <= 0.
C6_NonPositiveKRejected ==
    ~ (Returned /\ k <= 0)

\* C7: in main's loop a failure at one k does not stop the later ones:
\* whatever step failed, every k of the list has been evaluated when main
\* is done.
C7_FailureIsolatedPerK ==
    (pc = "done" /\ error \in {"evaluate", "print", "visualize", "save"})
        => evaluated = KList

\* C8: evaluating a frame without records raises nothing and returns zero
\* for every metric, no class, and a false verdict for every k >= 1.
C8_ZeroRecords ==
    (pc \in {"returned", "raised"} /\ n = 0) =>
        /\ pc = "returned"
        /\ ec_counts = <<>> /\ ec_groups = <<>>
        /\ metrics.num_equivalence_classes = 0
        /\ metrics.min_ec_size = 0
        /\ metrics.max_ec_size = 0
        /\ metrics.avg_ec_size = Zero
        /\ metrics.unique_records = 0
        /\ metrics.unique_records_percentage = Zero
        /\ results.risks.max_risk = Zero
        /\ results.risks.avg_risk = Zero
        /\ results.information_loss.average = Zero
        /\ results.suppression_rate = Zero
        /\ results.discernibility_metric = 0
        /\ k >= 1 => ~ results.satisfies_k_anonymity

\* a frame with columns and no record, evaluated at a positive k
C8_Witness ==
    Returned /\ n = 0 /\ df.ncols >= 1 /\ k >= 1

\* a common multiple of the class sizes
SizeProduct == LET P[i \in 0..Len(ec_counts)] ==
                       IF i = 0 THEN 1 ELSE P[i - 1] * ec_counts[i].val
               IN P[Len(ec_counts)]

\* C9: with at least one record there is one risk per class, 1/size, in
\* (0, 1]; max_risk = 1/min_ec_size, and it is 1 exactly when a class has
\* size 1 (unique_records > 0); avg_risk is the unweighted mean of the
\* risks: (sum over the classes of 1/size) / number of classes.
C9_Risks ==
    (Returned /\ n >= 1) =>
        LET r == results.risks
        IN /\ Len(r.risks) = Len(ec_counts)
           /\ \A i \in 1..Len(ec_counts) :
                  /\ r.risks[i].n * ec_counts[i].val = r.risks[i].d
                  /\ r.risks[i].n > 0 /\ r.risks[i].d > 0
                  /\ r.risks[i].n <= r.risks[i].d
           /\ r.max_risk.n * metrics.min_ec_size = r.max_risk.d
           /\ (r.max_risk.n = r.max_risk.d)
                  <=> \E i \in 1..Len(ec_counts) : ec_counts[i].val = 1
           /\ (r.max_risk.n = r.max_risk.d) <=> metrics.unique_records > 0
           /\ r.avg_risk.n * SizeProduct * Len(ec_counts)
                  = r.avg_risk.d
                    * SumInt([i \in 1..Len(ec_counts) |->
                                SizeProduct \div ec_counts[i].val])

\* a class of one record and a class of three: the mean risk per class is
\* 2/3, the mean risk per record 1/2
C9_Witness ==
    /\ Returned /\ Len(ec_counts) = 2
    /\ Range(Values(ec_counts)) = {1, 3}
    /\ results.risks.avg_risk = [n |-> 2, d |-> 3]

IsPatternAABBB ==
    /\ n = 5
    /\ QITuple(1) = QITuple(2)
    /\ QITuple(3) = QITuple(4) /\ QITuple(4) = QITuple(5)
    /\ QITuple(1) # QITuple(3)

\* C10: for a non-empty frame the statistics agree with the multiset of
\* class sizes: number of classes, min, max, avg = records / classes,
\* unique_records = classes of size 1, discernibility = sum of size^2;
\* tuples [A,A,B,B,B] give 2 classes, min 2, avg 2.5, discernibility 13
\* and no unique record.
C10_Statistics ==
    (Returned /\ n >= 1) =>
        /\ metrics.num_equivalence_classes = Len(ec_groups)
        /\ metrics.min_ec_size \in Range(GroupSizes)
        /\ metrics.max_ec_size \in Range(GroupSizes)
        /\ \A g \in 1..Len(ec_groups) :
               /\ metrics.min_ec_size <= GroupSizes[g]
               /\ metrics.max_ec_size >= GroupSizes[g]
        /\ metrics.avg_ec_size.n * metrics.num_equivalence_classes
               = n * metrics.avg_ec_size.d
        /\ metrics.unique_records
               = Cardinality({g \in 1..Len(ec_groups) : GroupSizes[g] = 1})
        /\ results.discernibility_metric
               = SumInt([g \in 1..Len(ec_groups) |-> GroupSizes[g] * GroupSizes[g]])
        /\ IsPatternAABBB =>
               /\ metrics.num_equivalence_classes = 2
               /\ metrics.min_ec_size = 2
               /\ metrics.avg_ec_size = [n |-> 5, d |-> 2]
               /\ results.discernibility_metric = 13
               /\ metrics.unique_records = 0

====
